---------------------------- MODULE Spec2Model ----------------------------
(***************************************************************************)
(* auto-semver-tag: a GitHub action that tags the merge commit of a pull   *)
(* request with the next semantic version.                                 *)
(*                                                                         *)
(*   pkg/semver/semver.go   SemVer: New (parse), String, IncrementVersion, *)
(*                          IsGreaterThan, StringToIncrementType           *)
(*   pkg/git/git.go         GithubClient: New (getLatestTag),              *)
(*                          PerformAction (parsePullRequestLabels,         *)
(*                          createTag)                                     *)
(*   main.go                executeCommand: one process run                *)
(*                                                                         *)
(* A Go string is a tuple of one-character strings, so that parsing and    *)
(* formatting are computed and not assumed.  A Go pointer is a tuple of    *)
(* length 0 (nil) or 1 (the value pointed to).                             *)
(***************************************************************************)
EXTENDS Integers, Sequences, FiniteSets, TLC

VARIABLES
    refs,      \* the tag references of the repository on the server
    pc,        \* where the process is: "start", "constructed", "exited"
    g,         \* the *GithubClient that git.New returned (a pointer)
    argv,      \* the arguments of PerformAction: commitSha and the event file
    err,       \* the error executeCommand ended with ("nil": none)
    created,   \* the references createTag created in this run, in order
    runs,      \* process runs started so far
    api,       \* how the server answered this run's ListMatchingRefs and
               \* CreateRef ("notcalled": the run did not call it)
    call,      \* a single call of a function of the packages, and
    ret        \* what it returned

vars == <<refs, pc, g, argv, err, created, runs, api, call, ret>>

(***************************************************************************)
(* Bounds of the model.                                                    *)
(***************************************************************************)
\* The largest value of an unsigned field.  The build has uint64, whose
\* largest value is 2^64 - 1; the model keeps the wrap-around and the range
\* check of strconv.ParseUint at a width TLC can enumerate.
MaxUint == 3
\* Labels of the pull request given to parsePullRequestLabels on its own.
MaxLabels == 3
\* Tags of a listing given to getLatestTag on its own.
MaxListing == 3
\* Runs of the process against the same repository.
MaxRuns == 2

Modulus == MaxUint + 1

(***************************************************************************)
(* Go values.                                                              *)
(***************************************************************************)
nil == <<>>
Ptr(x) == <<x>>
Deref(p) == p[1]

NoError == "nil"

Digits == <<"0", "1", "2", "3", "4", "5", "6", "7", "8", "9">>
Lower == <<"a", "b", "c", "d", "e", "f", "g", "h", "i", "j", "k", "l", "m",
           "n", "o", "p", "q", "r", "s", "t", "u", "v", "w", "x", "y", "z">>
Upper == <<"A", "B", "C", "D", "E", "F", "G", "H", "I", "J", "K", "L", "M",
           "N", "O", "P", "Q", "R", "S", "T", "U", "V", "W", "X", "Y", "Z">>

Range(f) == {f[i] : i \in DOMAIN f}

DigitChars == Range(Digits)
LetterChars == Range(Lower) \cup Range(Upper)

IsDigit(c) == c \in DigitChars
IsLetter(c) == c \in LetterChars

IndexIn(c, table) == CHOOSE i \in DOMAIN table : table[i] = c

DigitValue(c) == IndexIn(c, Digits) - 1

\* The byte of a lower-case letter: Go compares strings byte by byte.
Byte(c) == 96 + IndexIn(c, Lower)

\* a < b on Go strings.
RECURSIVE StringLess(_, _)
StringLess(a, b) ==
    IF b = <<>> THEN FALSE
    ELSE IF a = <<>> THEN TRUE
    ELSE IF Byte(Head(a)) # Byte(Head(b)) THEN Byte(Head(a)) < Byte(Head(b))
    ELSE StringLess(Tail(a), Tail(b))

\* strings.Index(s, <<c>>) for a one-character needle, 1-based; 0: absent.
IndexRune(s, c) ==
    IF \E i \in DOMAIN s : s[i] = c
    THEN CHOOSE i \in DOMAIN s : s[i] = c /\ \A j \in 1..(i - 1) : s[j] # c
    ELSE 0

\* s[from:] with 1-based from.
From(s, from) == SubSeq(s, from, Len(s))

(***************************************************************************)
(* pkg/semver/semver.go                                                    *)
(***************************************************************************)
IncrementTypeMajor == "major"
IncrementTypeMinor == "minor"
IncrementTypePatch == "patch"
IncrementTypeUnknown == "unknown"

IncrementTypes ==
    {IncrementTypeMajor, IncrementTypeMinor, IncrementTypePatch,
     IncrementTypeUnknown}

\* The characters of each IncrementType constant.
Spelling ==
    [major |-> <<"m", "a", "j", "o", "r">>,
     minor |-> <<"m", "i", "n", "o", "r">>,
     patch |-> <<"p", "a", "t", "c", "h">>,
     unknown |-> <<"u", "n", "k", "n", "o", "w", "n">>]

\* The reverse comparison, t > u.
IncrementTypeGreater(t, u) == StringLess(Spelling[u], Spelling[t])
\* t < u on IncrementType, a string type: "alphanumeric comparison".
IncrementTypeLess(t, u) == StringLess(Spelling[t], Spelling[u])

StringToIncrementType(val) ==
    CASE val = IncrementTypeMajor -> IncrementTypeMajor
      [] val = IncrementTypeMinor -> IncrementTypeMinor
      [] val = IncrementTypePatch -> IncrementTypePatch
      [] OTHER -> IncrementTypeUnknown

Uints == 0..MaxUint
SemVers == [major : Uints, minor : Uints, patch : Uints]
ZeroSemVer == [major |-> 0, minor |-> 0, patch |-> 0]

(***************************************************************************)
(* regexp.MatchString(SemVerRegExp, s).  Positions are 1-based; each       *)
(* ...Ends operator gives the positions right after the matches of a       *)
(* sub-expression that start at position i (or at a position of P).        *)
(***************************************************************************)
AllAt(s, i, j, Test(_)) == \A k \in i..j : Test(s[k])

IsIdentChar(c) == IsDigit(c) \/ IsLetter(c) \/ c = "-"
IsNonDigitIdentChar(c) == IsLetter(c) \/ c = "-"

\* \d+ : a numeral that may start with zeros.
NumeralEndsLeadingZeros(s, i) ==
    {j \in (i + 1)..(Len(s) + 1) : AllAt(s, i, j - 1, IsDigit)}

\* 0|[1-9]\d*
NumeralEnds(s, i) ==
    IF i > Len(s) THEN {}
    ELSE IF s[i] = "0" THEN {i + 1}
    ELSE IF IsDigit(s[i])
         THEN {j \in (i + 1)..(Len(s) + 1) : AllAt(s, i, j - 1, IsDigit)}
         ELSE {}

\* \d*[a-zA-Z-][0-9a-zA-Z-]*
AlphanumEnds(s, i) ==
    {j \in (i + 1)..(Len(s) + 1) :
        \E m \in i..(j - 1) :
            /\ AllAt(s, i, m - 1, IsDigit)
            /\ IsNonDigitIdentChar(s[m])
            /\ AllAt(s, m + 1, j - 1, IsIdentChar)}

\* 0|[1-9]\d*|\d*[a-zA-Z-][0-9a-zA-Z-]*
PreIdentEnds(s, i) == NumeralEnds(s, i) \cup AlphanumEnds(s, i)

\* [0-9a-zA-Z-]+
BuildIdentEnds(s, i) ==
    {j \in (i + 1)..(Len(s) + 1) : AllAt(s, i, j - 1, IsIdentChar)}

\* A literal character.
LitEnds(s, P, c) == {i + 1 : i \in {p \in P : p <= Len(s) /\ s[p] = c}}

\* (?:\.ident)* for the prerelease identifiers, from the positions P.
RECURSIVE PreTailEnds(_, _)
PreTailEnds(s, P) ==
    LET more == UNION {PreIdentEnds(s, i) : i \in LitEnds(s, P, ".")}
    IN  IF more \subseteq P THEN P ELSE PreTailEnds(s, P \cup more)

\* (?:\.ident)* for the build identifiers, from the positions P.
RECURSIVE BuildTailEnds(_, _)
BuildTailEnds(s, P) ==
    LET more == UNION {BuildIdentEnds(s, i) : i \in LitEnds(s, P, ".")}
    IN  IF more \subseteq P THEN P ELSE BuildTailEnds(s, P \cup more)

MatchSemVerRegExp(s) ==
    LET p0 == {1}
        pV == p0 \cup LitEnds(s, p0, "v")
        pMajor == UNION {NumeralEnds(s, i) : i \in pV}
        pMinor == UNION {NumeralEnds(s, i) : i \in LitEnds(s, pMajor, ".")}
        pPatch == UNION {NumeralEnds(s, i) : i \in LitEnds(s, pMinor, ".")}
        pPre == pPatch \cup PreTailEnds(s,
                    UNION {PreIdentEnds(s, i) : i \in LitEnds(s, pPatch, "-")})
        pBuild == pPre \cup BuildTailEnds(s,
                    UNION {BuildIdentEnds(s, i) : i \in LitEnds(s, pPre, "+")})
    IN  (Len(s) + 1) \in pBuild

\* strconv.ParseUint(s, 10, 64): the digits of s read left to right, an
\* error for no digit, a character that is no digit, or a value out of range.
RECURSIVE ParseDigits(_, _)
ParseDigits(s, n) ==
    IF s = <<>> THEN [n |-> n, err |-> FALSE]
    ELSE IF ~IsDigit(Head(s)) THEN [n |-> 0, err |-> TRUE]
    ELSE LET n1 == n * 10 + DigitValue(Head(s))
         IN  IF n1 > MaxUint THEN [n |-> MaxUint, err |-> TRUE]
             ELSE ParseDigits(Tail(s), n1)

ParseUint(s) ==
    IF s = <<>> THEN [n |-> 0, err |-> TRUE] ELSE ParseDigits(s, 0)

\* strings.SplitN(s, <<sep>>, n) for n > 0.
RECURSIVE SplitN(_, _, _)
SplitN(s, sep, n) ==
    LET i == IndexRune(s, sep)
    IN  IF n = 1 \/ i = 0 THEN <<s>>
        ELSE <<SubSeq(s, 1, i - 1)>> \o SplitN(From(s, i + 1), sep, n - 1)

\* s[:i] when c is found at i (strings.IndexRune(s, c) != -1), else s.
CutAt(s, c) ==
    IF IndexRune(s, c) # 0 THEN SubSeq(s, 1, IndexRune(s, c) - 1) ELSE s

newInvalidSemVerError == [res |-> ZeroSemVer, err |-> "invalid semver"]

New(semVer) ==
    IF ~MatchSemVerRegExp(semVer) THEN newInvalidSemVerError
    ELSE
      LET text == IF IndexRune(semVer, "v") = 1 THEN From(semVer, 2) ELSE semVer
          parts == SplitN(text, ".", 3)
          major == ParseUint(parts[1])
          minor == ParseUint(parts[2])
          patchStr == CutAt(CutAt(parts[3], "+"), "-")
          patch == ParseUint(patchStr)
      IN  IF major.err THEN newInvalidSemVerError
          ELSE IF minor.err THEN newInvalidSemVerError
          ELSE IF patch.err THEN newInvalidSemVerError
          ELSE [res |-> [major |-> major.n, minor |-> minor.n, patch |-> patch.n],
                err |-> NoError]

\* What IncrementVersion leaves behind when it panics.
Panic == [panic |-> "invalid increment type"]

IncrementVersion(s, incrementType) ==
    CASE incrementType = IncrementTypeMajor ->
            [major |-> (s.major + 1) % Modulus, minor |-> 0, patch |-> 0]
      [] incrementType = IncrementTypeMinor ->
            [major |-> s.major, minor |-> (s.minor + 1) % Modulus, patch |-> 0]
      [] incrementType = IncrementTypePatch ->
            [major |-> s.major, minor |-> s.minor,
             patch |-> (s.patch + 1) % Modulus]
      [] OTHER -> Panic

\* fmt's %d of an unsigned value.
RECURSIVE FormatUint(_)
FormatUint(n) ==
    IF n < 10 THEN <<Digits[n + 1]>>
    ELSE FormatUint(n \div 10) \o <<Digits[(n % 10) + 1]>>

\* SemVer.String: "v%d.%d.%d"
String(s) ==
    <<"v">> \o FormatUint(s.major) \o <<".">> \o FormatUint(s.minor)
            \o <<".">> \o FormatUint(s.patch)

\* A comparison that lets any greater field decide.
IsGreaterThanAnyField(s, o) ==
    IF s.major > o.major THEN TRUE
    ELSE IF s.minor > o.minor THEN TRUE
    ELSE IF s.patch > o.patch THEN TRUE
    ELSE FALSE

IsGreaterThan(s, o) ==
    IF s.major > o.major THEN TRUE
    ELSE IF s.major < o.major THEN FALSE
    ELSE IF s.minor > o.minor THEN TRUE
    ELSE IF s.minor < o.minor THEN FALSE
    ELSE IF s.patch > o.patch THEN TRUE
    ELSE FALSE

(***************************************************************************)
(* pkg/git/git.go                                                          *)
(*                                                                         *)
(* A github.Reference is [Ref, SHA]: Ref is the reference name, whose      *)
(* first element is the prefix "refs/tags/" kept as one token, and SHA is  *)
(* the pointer ref.Object.SHA.  A github.PullRequestEvent is               *)
(* [Action, PullRequest], a github.PullRequest [Merged, Base, Labels], a   *)
(* github.PullRequestBranch [Ref], a github.Label [Name].                  *)
(***************************************************************************)
RefsTags == "refs/tags/"

TagRef(name, sha) == [Ref |-> <<RefsTags>> \o name, SHA |-> Ptr(sha)]

\* strings.Replace(s, old, "", 1) for a one-token old.
ReplaceFirst(s, old) ==
    IF IndexRune(s, old) = 0 THEN s
    ELSE SubSeq(s, 1, IndexRune(s, old) - 1) \o From(s, IndexRune(s, old) + 1)

StatusNotFound == 404

\* client.Git.ListMatchingRefs: what the server answers for "tags".  A
\* repository that cannot be found has no tag the client could list or
\* create, so 404 is answered only where there is none.
ListMatchingRefs(server, fault) ==
    CASE fault = "none" ->
            [refs |-> server, response |-> Ptr([StatusCode |-> 200]),
             err |-> NoError]
      [] fault = "notfound" ->
            [refs |-> <<>>, response |-> Ptr([StatusCode |-> StatusNotFound]),
             err |-> "404 Not Found"]
      [] fault = "server" ->
            [refs |-> <<>>,
             response |-> Ptr([StatusCode |-> 500]),
             err |-> "500 Internal Server Error"]
      [] OTHER ->
            [refs |-> <<>>, response |-> nil, err |-> "connection refused"]

Faults(server) ==
    {"none", "server", "network"}
        \cup (IF server = <<>> THEN {"notfound"} ELSE {})

\* The loop without the comparison: the last parsed version wins.
RECURSIVE LastOf(_, _)
LastOf(listed, res) ==
    IF listed = <<>> THEN res
    ELSE LET parsed == New(ReplaceFirst(Head(listed).Ref, RefsTags))
         IN  IF parsed.err # NoError THEN LastOf(Tail(listed), res)
             ELSE LastOf(Tail(listed), parsed.res)

\* The loop of getLatestTag over the listed references.
RECURSIVE LatestOf(_, _)
LatestOf(listed, res) ==
    IF listed = <<>> THEN res
    ELSE LET parsed == New(ReplaceFirst(Head(listed).Ref, RefsTags))
         IN  IF parsed.err # NoError THEN LatestOf(Tail(listed), res)
             ELSE IF IsGreaterThan(parsed.res, res)
                  THEN LatestOf(Tail(listed), parsed.res)
                  ELSE LatestOf(Tail(listed), res)

getLatestTag(listing) ==
    IF listing.response # nil
           /\ Deref(listing.response).StatusCode = StatusNotFound
    THEN [version |-> ZeroSemVer, err |-> NoError]
    ELSE IF listing.err # NoError
         THEN [version |-> ZeroSemVer, err |-> "ListMatchingRefs failed"]
         ELSE [version |-> LatestOf(listing.refs, ZeroSemVer), err |-> NoError]

\* The loop of parsePullRequestLabels.
RECURSIVE LeastType(_, _)
LeastType(labels, incType) ==
    IF labels = <<>> THEN incType
    ELSE IF Head(labels).Name = nil THEN LeastType(Tail(labels), incType)
    ELSE LET t == StringToIncrementType(Deref(Head(labels).Name))
         IN  IF IncrementTypeLess(t, incType)
             THEN LeastType(Tail(labels), t)
             ELSE LeastType(Tail(labels), incType)

\* The loop started from IncrementTypePatch instead of IncrementTypeUnknown.
parsePullRequestLabelsPatchByDefault(pr) ==
    LeastType(pr.Labels, IncrementTypePatch)
parsePullRequestLabels(pr) == LeastType(pr.Labels, IncrementTypeUnknown)

\* client.Git.CreateRef: the server refuses a reference that exists
\* (422 "Reference already exists") and may fail to answer at all.
createTag(server, version, commitSha, up) ==
    LET ref == TagRef(version, commitSha)
    IN  IF ~up
        THEN [err |-> "CreateRef failed", refs |-> server,
              createRef |-> "unanswered"]
        ELSE IF \E i \in DOMAIN server : server[i].Ref = ref.Ref
        THEN [err |-> "Reference already exists", refs |-> server,
              createRef |-> "refused"]
        ELSE [err |-> NoError, refs |-> Append(server, ref),
              createRef |-> "created"]

\* A return of PerformAction before createTag.
Return(e, server) == [err |-> e, refs |-> server, createRef |-> "notcalled"]

\* The action check with a missing action let through.
NotClosedNilPasses(event) ==
    event.Action # nil /\ Deref(event.Action) # "closed"
\* action != "closed", a missing action read as "".
NotClosed(event) ==
    (IF event.Action # nil THEN Deref(event.Action) ELSE "") # "closed"

\* The merged check with a missing flag let through.
NotMergedNilPasses(pr) == pr.Merged # nil /\ ~Deref(pr.Merged)
\* !isMerged, a missing flag read as false.
NotMerged(pr) == ~(IF pr.Merged # nil THEN Deref(pr.Merged) ELSE FALSE)

\* baseRef, a missing base or reference name read as "".
BaseRef(pr) ==
    IF pr.Base # nil /\ Deref(pr.Base).Ref # nil
    THEN Deref(Deref(pr.Base).Ref) ELSE ""

\* PerformAction without the branch check.
OtherBranchUnchecked(c, pr) == FALSE
\* baseRef != g.repo.releaseBranch
OtherBranch(c, pr) == BaseRef(pr) # c.repo.releaseBranch

\* PerformAction without the return for IncrementTypeUnknown.
NoSemVerLabelUnchecked(incrementType) == FALSE
\* incrementType == semver.IncrementTypeUnknown
NoSemVerLabel(incrementType) == incrementType = IncrementTypeUnknown

\* PerformAction of the client c: the error it returns and the server's
\* references when it returns.  file is the pointer to the event that
\* parseEventDataFile read (nil: the file could not be read or parsed); up
\* says whether the server answers CreateRef.
PerformActionResult(c, server, commitSha, file, up) ==
    IF file = nil THEN Return("parse event data file", server)
    ELSE
      LET event == Deref(file)
          pr == event.PullRequest
          incrementType == parsePullRequestLabels(Deref(pr))
          newVersion == IncrementVersion(c.repo.version, incrementType)
      IN  IF pr = nil
          THEN Return("pull request not found in data file", server)
          ELSE IF NotClosed(event)
          THEN Return("pull request is not closed", server)
          ELSE IF NotMerged(Deref(pr))
          THEN Return("pull request is not merged", server)
          ELSE IF OtherBranch(c, Deref(pr))
          THEN Return("pull request merged into a different branch", server)
          ELSE IF NoSemVerLabel(incrementType)
          THEN Return(NoError, server)
          ELSE IF newVersion = Panic
          THEN Return("panic: invalid increment type", server)
          ELSE createTag(server, String(newVersion), commitSha, up)

(***************************************************************************)
(* The inputs of the runs.                                                 *)
(***************************************************************************)
Str(n) == FormatUint(n)
Name(prefix, a, b, c) ==
    prefix \o Str(a) \o <<".">> \o Str(b) \o <<".">> \o Str(c)

\* Tag names of the repository before the first run: versions (the largest
\* one the fields can hold among them) and a tag that is no version.
InitialTagNames ==
    {Name(<<"v">>, 1, 2, 3), Name(<<"v">>, MaxUint, MaxUint, MaxUint),
     <<"l", "a", "t", "e", "s", "t">>}

Commits == {"c1", "c2"}
FirstCommit == "c0"

RECURSIVE SeqsUpTo(_, _)
SeqsUpTo(S, n) ==
    IF n = 0 THEN {<<>>}
    ELSE LET shorter == SeqsUpTo(S, n - 1)
         IN  shorter \cup {Append(q, x) : q \in shorter, x \in S}

\* The repository before the first run: without tags, with one of the
\* tags above, and with a version listed after a tag that is no version.
InitialRefs ==
    {<<>>} \cup {<<TagRef(name, FirstCommit)>> : name \in InitialTagNames}
        \cup {<<TagRef(<<"l", "a", "t", "e", "s", "t">>, FirstCommit),
                TagRef(Name(<<"v">>, 1, 2, 3), FirstCommit)>>}

ReleaseBranches == {"main", ""}

EventActions == {nil, Ptr("closed"), Ptr("opened")}
EventMerged == {nil, Ptr(TRUE), Ptr(FALSE)}
EventBases ==
    {nil, Ptr([Ref |-> nil]), Ptr([Ref |-> Ptr("main")]),
     Ptr([Ref |-> Ptr("develop")])}

Label(name) == [Name |-> Ptr(name)]
NoNameLabel == [Name |-> nil]

EventLabels ==
    {<<>>, <<Label("major")>>, <<Label("minor")>>, <<Label("patch")>>,
     <<Label("bug")>>, <<Label("Major")>>, <<NoNameLabel>>,
     <<Label("major"), Label("patch")>>}

PullRequests == [Merged : EventMerged, Base : EventBases, Labels : EventLabels]

Events ==
    [Action : EventActions, PullRequest : {nil} \cup {Ptr(pr) : pr \in PullRequests}]

EventFiles == {nil} \cup {Ptr(e) : e \in Events}

(***************************************************************************)
(* One run of the process: main.go's executeCommand.                       *)
(***************************************************************************)
NoCall == [fn |-> "none"]
NotCalled == [list |-> "notcalled", create |-> "notcalled"]

Init ==
    /\ refs \in InitialRefs
    /\ pc = "start"
    /\ g = nil
    /\ argv = nil
    /\ err = NoError
    /\ created = <<>>
    /\ runs = 1
    /\ api = NotCalled
    /\ call = NoCall
    /\ ret = nil

\* git.New: the client for the release branch, its version the latest tag.
NewClient(releaseBranch, fault) ==
    /\ pc = "start"
    /\ LET latest == getLatestTag(ListMatchingRefs(refs, fault))
       IN  IF latest.err # NoError
           THEN /\ pc' = "exited"
                /\ err' = latest.err
                /\ g' = nil
           ELSE /\ pc' = "constructed"
                /\ err' = NoError
                /\ g' = Ptr([repo |-> [releaseBranch |-> releaseBranch,
                                       version |-> latest.version]])
    /\ api' = [api EXCEPT !.list = fault]
    /\ UNCHANGED <<refs, argv, created, runs, call, ret>>

\* client.PerformAction(commitSha, githubEventFilePath), then the exit.
PerformAction(commitSha, file, up) ==
    /\ pc = "constructed"
    /\ LET result == PerformActionResult(Deref(g), refs, commitSha, file, up)
       IN  /\ err' = result.err
           /\ refs' = result.refs
           /\ created' = SubSeq(result.refs, Len(refs) + 1, Len(result.refs))
           /\ api' = [api EXCEPT !.create = result.createRef]
    /\ argv' = Ptr([commitSha |-> commitSha, file |-> file])
    /\ pc' = "exited"
    /\ UNCHANGED <<g, runs, call, ret>>

\* The workflow runs the action again, for the same or another event.
Restart ==
    /\ pc = "exited"
    /\ runs < MaxRuns
    /\ pc' = "start"
    /\ g' = nil
    /\ argv' = nil
    /\ err' = NoError
    /\ created' = <<>>
    /\ runs' = runs + 1
    /\ api' = NotCalled
    /\ UNCHANGED <<refs, call, ret>>

Next ==
    \/ \E releaseBranch \in ReleaseBranches, fault \in Faults(refs) :
           NewClient(releaseBranch, fault)
    \/ \E commitSha \in Commits, file \in EventFiles, up \in BOOLEAN :
           PerformAction(commitSha, file, up)
    \/ Restart

Spec == Init /\ [][Next]_vars

(***************************************************************************)
(* Single calls of the functions of the packages: the caller's arguments   *)
(* are in call, the value returned is put behind ret.                      *)
(***************************************************************************)
NoRun ==
    /\ refs = <<>>
    /\ pc = "call"
    /\ g = nil
    /\ argv = nil
    /\ err = NoError
    /\ created = <<>>
    /\ runs = 0
    /\ api = NotCalled

runVars == <<refs, pc, g, argv, err, created, runs, api>>

\* s.IncrementVersion(incrementType); s is passed by value.
CallIncrementVersion ==
    /\ call.fn = "IncrementVersion"
    /\ ret = nil
    /\ ret' = Ptr(IncrementVersion(call.s, call.incrementType))
    /\ UNCHANGED <<call, runVars>>

\* s.IsGreaterThan(o)
CallIsGreaterThan ==
    /\ call.fn = "IsGreaterThan"
    /\ ret = nil
    /\ ret' = Ptr(IsGreaterThan(call.s, call.o))
    /\ UNCHANGED <<call, runVars>>

\* semver.New(semVer)
CallNew ==
    /\ call.fn = "New"
    /\ ret = nil
    /\ ret' = Ptr(New(call.semVer))
    /\ UNCHANGED <<call, runVars>>

\* parsePullRequestLabels(pr)
CallParsePullRequestLabels ==
    /\ call.fn = "parsePullRequestLabels"
    /\ ret = nil
    /\ ret' = Ptr(parsePullRequestLabels(call.pr))
    /\ UNCHANGED <<call, runVars>>

(***************************************************************************)
(* SpecSemVer: IncrementVersion and IsGreaterThan on every version.        *)
(***************************************************************************)
InitSemVer ==
    /\ NoRun
    /\ call \in [fn : {"IncrementVersion"}, s : SemVers,
                 incrementType : IncrementTypes]
                \cup [fn : {"IsGreaterThan"}, s : SemVers, o : SemVers]
    /\ ret = nil

NextSemVer == CallIncrementVersion \/ CallIsGreaterThan

SpecSemVer == InitSemVer /\ [][NextSemVer]_vars

(***************************************************************************)
(* SpecLabels: parsePullRequestLabels on every list of labels.             *)
(***************************************************************************)
LabelPool ==
    {Label("major"), Label("minor"), Label("patch"), Label("Major"),
     Label("bug"), NoNameLabel}

InitLabels ==
    /\ NoRun
    /\ call \in [fn : {"parsePullRequestLabels"},
                 pr : [Merged : {Ptr(TRUE)}, Base : {Ptr([Ref |-> Ptr("main")])},
                       Labels : SeqsUpTo(LabelPool, MaxLabels)]]
    /\ ret = nil

NextLabels == CallParsePullRequestLabels

SpecLabels == InitLabels /\ [][NextLabels]_vars

(***************************************************************************)
(* SpecNew: semver.New on strings put together from prefixes, numerals,    *)
(* separators and suffixes, well-formed and not.                           *)
(***************************************************************************)
PrefixPool == {<<>>, <<"v">>, <<"V">>}

NumeralPool ==
    {<<"0">>, <<"1">>, Str(MaxUint), Str(MaxUint + 1), <<"0", "1">>, <<>>}

SeparatorPool == {<<".", ".">>, <<"", ".">>, <<".", ",">>}

SuffixPool ==
    {<<>>,
     <<"-", "r", "c", ".", "1">>,
     <<"+", "b", "u", "i", "l", "d", ".", "1">>,
     <<"-", "r", "c", ".", "1", "+", "b", "u", "i", "l", "d", ".", "1">>,
     <<"-">>, <<"+">>, <<"-", "-">>,
     <<"-", "0", "1">>, <<"-", "0", "a">>, <<"-", "1", ".", "0", "0">>,
     <<"-", "a", ".", ".", "b">>, <<"-", "a", "+", "b", "+", "c">>,
     <<"+", "a", "-", "b">>, <<"+", "0", "0">>,
     <<".", "1">>, <<" ">>}

Join(prefix, a, seps, b, c, suffix) ==
    prefix \o a \o SelectSeq(<<seps[1]>>, LAMBDA x : x # "") \o b
           \o <<seps[2]>> \o c \o suffix

NewInputs ==
    {Join(prefix, a, seps, b, c, suffix) :
        prefix \in PrefixPool, a \in NumeralPool, seps \in SeparatorPool,
        b \in NumeralPool, c \in NumeralPool, suffix \in SuffixPool}

InitNew ==
    /\ NoRun
    /\ call \in [fn : {"New"}, semVer : NewInputs]
    /\ ret = nil

NextNew == CallNew

SpecNew == InitNew /\ [][NextNew]_vars

(***************************************************************************)
(* The revision of getLatestTag that also returns the commit of the latest *)
(* tag (Repository.versionHash).                                           *)
(***************************************************************************)
RECURSIVE LatestCommitOf(_, _, _)
LatestCommitOf(listed, res, commit) ==
    IF listed = <<>> THEN [version |-> res, commit |-> commit, err |-> NoError]
    ELSE LET parsed == New(ReplaceFirst(Head(listed).Ref, RefsTags))
         IN  IF parsed.err # NoError
             THEN LatestCommitOf(Tail(listed), res, commit)
             ELSE IF IsGreaterThan(parsed.res, res)
                  THEN IF Head(listed).SHA = nil
                       THEN [version |-> res, commit |-> commit,
                             err |-> "unable to extract hash from tag"]
                       ELSE LatestCommitOf(Tail(listed), parsed.res,
                                           Deref(Head(listed).SHA))
                  ELSE LatestCommitOf(Tail(listed), res, commit)

getLatestTagCommit(listing) ==
    IF listing.response = nil
    THEN [version |-> ZeroSemVer, commit |-> "",
          err |-> "panic: nil pointer dereference"]
    ELSE IF listing.err # NoError
         THEN [version |-> ZeroSemVer, commit |-> "", err |-> listing.err]
         ELSE LatestCommitOf(listing.refs, ZeroSemVer, "")

CallGetLatestTagCommit ==
    /\ call.fn = "getLatestTag"
    /\ ret = nil
    /\ ret' = Ptr(getLatestTagCommit(call.listing))
    /\ UNCHANGED <<call, runVars>>

(***************************************************************************)
(* SpecTags: one run, and one call of the revision above, for every        *)
(* listing of tags: versions with and without the "v", with a suffix, out  *)
(* of range, malformed, and one whose object the server left out.          *)
(***************************************************************************)
TagPool ==
    {TagRef(Name(<<"v">>, 1, 2, 3), FirstCommit),
     TagRef(Name(<<>>, 1, 3, 0), "c1"),
     TagRef(Name(<<"v">>, 0, 0, 0), FirstCommit),
     TagRef(Name(<<"v">>, 0, 1, 0) \o <<"-", "r", "c", ".", "1">>, "c2"),
     TagRef(<<"l", "a", "t", "e", "s", "t">>, FirstCommit),
     TagRef(<<"v", "0">> \o Name(<<>>, 1, 2, 3), FirstCommit),
     TagRef(Name(<<"v">>, MaxUint + 1, 0, 0), FirstCommit),
     [Ref |-> <<RefsTags>> \o Name(<<"v">>, 2, 0, 0), SHA |-> nil]}

TagEventFiles ==
    {Ptr([Action |-> Ptr("closed"),
          PullRequest |-> Ptr([Merged |-> Ptr(TRUE),
                               Base |-> Ptr([Ref |-> Ptr("main")]),
                               Labels |-> labels])]) :
        labels \in {<<Label("patch")>>, <<Label("bug")>>}}

InitTags ==
    /\ refs \in SeqsUpTo(TagPool, MaxListing)
    /\ pc = "start"
    /\ g = nil
    /\ argv = nil
    /\ err = NoError
    /\ created = <<>>
    /\ runs = 1
    /\ api = NotCalled
    /\ call = [fn |-> "getLatestTag", listing |-> ListMatchingRefs(refs, "none")]
    /\ ret = nil

NextTags ==
    \/ \E fault \in Faults(refs) : NewClient("main", fault)
    \/ \E file \in TagEventFiles, up \in BOOLEAN : PerformAction("c1", file, up)
    \/ CallGetLatestTagCommit

SpecTags == InitTags /\ [][NextTags]_vars

(***************************************************************************)
(* The run that PerformAction ended, as the claims speak of it.            *)
(***************************************************************************)
Performed == pc = "exited" /\ argv # nil
HasEvent == Performed /\ Deref(argv).file # nil
TheEvent == Deref(Deref(argv).file)
HasPullRequest == HasEvent /\ TheEvent.PullRequest # nil
ThePullRequest == Deref(TheEvent.PullRequest)
TheLabels == ThePullRequest.Labels
TheRepo == Deref(g).repo

Closed == TheEvent.Action = Ptr("closed")
Merged == ThePullRequest.Merged = Ptr(TRUE)
BasePresent ==
    ThePullRequest.Base # nil /\ Deref(ThePullRequest.Base).Ref # nil
BaseName == Deref(Deref(ThePullRequest.Base).Ref)
ClosedAndMerged == HasPullRequest /\ Closed /\ Merged
IntoReleaseBranch ==
    ClosedAndMerged /\ BasePresent /\ BaseName = TheRepo.releaseBranch

HasLabel(labels, name) == \E i \in DOMAIN labels : labels[i].Name = Ptr(name)

NoTagCreated == created = <<>> /\ api.create \in {"notcalled", "unanswered", "refused"}
CreateTagNotCalled == created = <<>> /\ api.create = "notcalled"

\* The references the run listed: those of the server less the run's own.
Listed == SubSeq(refs, 1, Len(refs) - Len(created))

(***************************************************************************)
(* C1, as stated: a closed and merged pull request whose base branch is    *)
(* present and is not the release branch ends PerformAction without an     *)
(* error and without a tag.                                                *)
(***************************************************************************)
C1_OtherBranch ==
    ClosedAndMerged /\ BasePresent /\ BaseName # TheRepo.releaseBranch

MostSignificant(labels) ==
    IF HasLabel(labels, "major") THEN IncrementTypeMajor
    ELSE IF HasLabel(labels, "minor") THEN IncrementTypeMinor
    ELSE IF HasLabel(labels, "patch") THEN IncrementTypePatch
    ELSE IncrementTypeUnknown

C2_MostSignificantLabel ==
    (call.fn = "parsePullRequestLabels" /\ ret # nil) =>
        /\ Deref(ret) = MostSignificant(call.pr.Labels)
        /\ call.pr.Labels = <<Label("major"), Label("patch")>> =>
              String(IncrementVersion([major |-> 1, minor |-> 2, patch |-> 3],
                                      Deref(ret)))
                  = <<"v", "2", ".", "0", ".", "0">>

C2_Witness ==
    /\ call.fn = "parsePullRequestLabels"
    /\ call.pr.Labels = <<Label("patch"), Label("Major"), Label("minor")>>
    /\ ret = Ptr(IncrementTypeMinor)

(***************************************************************************)
(* C3, as stated: an event whose action is not "closed", or is missing,    *)
(* ends PerformAction with the error "pull request is not closed" and      *)
(* without a tag: the check of the action is the first.                    *)
(***************************************************************************)
C3_NotClosedIsFirst ==
    (HasEvent /\ ~Closed) =>
        err = "pull request is not closed" /\ CreateTagNotCalled

(***************************************************************************)
(* C3, amended: an event that holds a pull request and whose action is not *)
(* "closed", or is missing, ends PerformAction with the error "pull        *)
(* request is not closed" and without a tag, whatever the merged flag, the *)
(* base branch and the labels are; the only check before the action's is   *)
(* that the event holds a pull request, whose absence ends PerformAction   *)
(* with "pull request not found in data file" and without a tag.           *)
(***************************************************************************)
C3_NotClosedIsRejected ==
    /\ (HasPullRequest /\ ~Closed) =>
          err = "pull request is not closed" /\ CreateTagNotCalled
    /\ (HasEvent /\ ~HasPullRequest) =>
          err = "pull request not found in data file" /\ CreateTagNotCalled

C3_Witness ==
    /\ HasPullRequest
    /\ TheEvent.Action = nil
    /\ Merged
    /\ BasePresent
    /\ BaseName = TheRepo.releaseBranch
    /\ HasLabel(TheLabels, "major")

(***************************************************************************)
(* C4: a closed pull request whose merged flag is false or missing ends    *)
(* PerformAction with the error "pull request is not merged" and without a *)
(* tag, whatever the base branch and the labels are.                       *)
(***************************************************************************)
C4_NotMergedIsRejected ==
    (HasPullRequest /\ Closed /\ ~Merged) =>
        err = "pull request is not merged" /\ CreateTagNotCalled

C4_Witness ==
    /\ HasPullRequest
    /\ Closed
    /\ ThePullRequest.Merged = nil
    /\ BasePresent
    /\ BaseName = TheRepo.releaseBranch
    /\ HasLabel(TheLabels, "minor")

(***************************************************************************)
(* C5: a closed pull request merged into the release branch without a      *)
(* label named "major", "minor" or "patch" ends PerformAction without an   *)
(* error; createTag is not called and the latest version of the repository *)
(* stays the client's.                                                     *)
(***************************************************************************)
C5_NoLabel ==
    /\ IntoReleaseBranch
    /\ ~HasLabel(TheLabels, "major")
    /\ ~HasLabel(TheLabels, "minor")
    /\ ~HasLabel(TheLabels, "patch")

C6_PatchByDefault ==
    (/\ IntoReleaseBranch
     /\ ~HasLabel(TheLabels, "major")
     /\ ~HasLabel(TheLabels, "minor")) =>
        /\ api.create # "notcalled"
        /\ api.create = "created" =>
              created = <<TagRef(String(IncrementVersion(TheRepo.version,
                                                         IncrementTypePatch)),
                                 Deref(argv).commitSha)>>

(***************************************************************************)
(* C7, as stated: for every version, IncrementVersion returns (major+1, 0, *)
(* 0) for Major, (major, minor+1, 0) for Minor and (major, minor, patch+1) *)
(* for Patch, and leaves its receiver as it was.                           *)
(***************************************************************************)
Incremented(s, t, r, Add1) ==
    CASE t = IncrementTypeMajor ->
            r.major = Add1[s.major] /\ r.minor = 0 /\ r.patch = 0
      [] t = IncrementTypeMinor ->
            r.major = s.major /\ r.minor = Add1[s.minor] /\ r.patch = 0
      [] t = IncrementTypePatch ->
            r.major = s.major /\ r.minor = s.minor /\ r.patch = Add1[s.patch]
      [] OTHER -> TRUE

Successor == [n \in Uints |-> n + 1]
SuccessorInField == [n \in Uints |-> IF n = MaxUint THEN 0 ELSE n + 1]

C7_IncrementVersion ==
    [][(call.fn = "IncrementVersion" /\ ret = nil /\ ret' # nil) =>
          /\ Incremented(call.s, call.incrementType, Deref(ret'), Successor)
          /\ call'.s = call.s]_vars

(***************************************************************************)
(* What IncrementVersion does at every field value: the same triples, with *)
(* +1 taking the largest value of the unsigned field to 0; the receiver is *)
(* left as it was.                                                         *)
(***************************************************************************)
IncrementVersionInField ==
    [][(call.fn = "IncrementVersion" /\ ret = nil /\ ret' # nil) =>
          /\ Incremented(call.s, call.incrementType, Deref(ret'),
                         SuccessorInField)
          /\ call'.s = call.s]_vars

\* The largest major version, incremented: the field wraps around to 0.
C7_Wrapped ==
    /\ call.fn = "IncrementVersion"
    /\ call.s = [major |-> MaxUint, minor |-> 2, patch |-> 3]
    /\ call.incrementType = IncrementTypeMajor
    /\ ret = Ptr(ZeroSemVer)

(***************************************************************************)
(* C8: IsGreaterThan is the strict lexicographic order on (major, minor,   *)
(* patch): irreflexive, transitive, and of a > b, b > a, a = b exactly one *)
(* holds.                                                                  *)
(***************************************************************************)
LexGreater(a, b) ==
    \/ a.major > b.major
    \/ a.major = b.major /\ a.minor > b.minor
    \/ a.major = b.major /\ a.minor = b.minor /\ a.patch > b.patch

ExactlyOne(p, q, r) == (p /\ ~q /\ ~r) \/ (~p /\ q /\ ~r) \/ (~p /\ ~q /\ r)

C8_StrictLexicographicOrder ==
    (call.fn = "IsGreaterThan" /\ ret # nil) =>
        LET a == call.s
            b == call.o
            gt == Deref(ret)
        IN  /\ gt = LexGreater(a, b)
            /\ a = b => ~gt
            /\ ExactlyOne(gt, IsGreaterThan(b, a), a = b)
            /\ \A c \in SemVers : (gt /\ IsGreaterThan(b, c)) => IsGreaterThan(a, c)

C8_Witness ==
    /\ call.fn = "IsGreaterThan"
    /\ call.s = [major |-> 1, minor |-> 1, patch |-> 0]
    /\ call.o = [major |-> 1, minor |-> 0, patch |-> 1]
    /\ ret = Ptr(TRUE)

(***************************************************************************)
(* The grammar of C9: an optional "v", MAJOR.MINOR.PATCH without leading   *)
(* zeros, an optional -prerelease and an optional +build.                  *)
(***************************************************************************)
IsNumeral(t) ==
    /\ t # <<>>
    /\ \A k \in DOMAIN t : IsDigit(t[k])
    /\ Len(t) > 1 => t[1] # "0"

DotFree(t) == \A k \in DOMAIN t : t[k] # "."

\* The dot-separated identifiers of t, the empty ones included.
Pieces(t) ==
    LET dots == {d \in DOMAIN t : t[d] = "."}
        first == {1} \cup {d + 1 : d \in dots}
        last == {Len(t)} \cup {d - 1 : d \in dots}
    IN  {SubSeq(t, i, j) :
            <<i, j>> \in {x \in first \X last :
                             x[2] >= x[1] - 1 /\ DotFree(SubSeq(t, x[1], x[2]))}}

IsPrereleaseIdentifier(p) ==
    /\ p # <<>>
    /\ \A k \in DOMAIN p : IsDigit(p[k]) \/ IsLetter(p[k]) \/ p[k] = "-"
    /\ (\A k \in DOMAIN p : IsDigit(p[k])) => IsNumeral(p)

IsBuildIdentifier(p) ==
    /\ p # <<>>
    /\ \A k \in DOMAIN p : IsDigit(p[k]) \/ IsLetter(p[k]) \/ p[k] = "-"

IsPrerelease(t) == \A p \in Pieces(t) : IsPrereleaseIdentifier(p)
IsBuild(t) == \A p \in Pieces(t) : IsBuildIdentifier(p)

IsSuffix(u) ==
    \/ u = <<>>
    \/ /\ u # <<>>
       /\ u[1] = "+"
       /\ IsBuild(Tail(u))
    \/ /\ u # <<>>
       /\ u[1] = "-"
       /\ \/ IsPrerelease(Tail(u))
          \/ \E p \in 2..Len(u) :
                /\ u[p] = "+"
                /\ IsPrerelease(SubSeq(u, 2, p - 1))
                /\ IsBuild(SubSeq(u, p + 1, Len(u)))

\* The ways to read text as MAJOR.MINOR.PATCH and a suffix.
Readings(text) ==
    LET t == IF text # <<>> /\ text[1] = "v" THEN Tail(text) ELSE text
    IN  {r \in [major : 1..Len(t), minor : 1..Len(t), patch : 1..Len(t)] :
            /\ r.major < r.minor /\ r.minor < r.patch
            /\ t[r.major] = "." /\ t[r.minor] = "."
            /\ IsNumeral(SubSeq(t, 1, r.major - 1))
            /\ IsNumeral(SubSeq(t, r.major + 1, r.minor - 1))
            /\ IsNumeral(SubSeq(t, r.minor + 1, r.patch))
            /\ IsSuffix(SubSeq(t, r.patch + 1, Len(t)))}

IsSemVerText(text) == Readings(text) # {}

RECURSIVE Decimal(_)
Decimal(t) ==
    IF Len(t) = 1 THEN DigitValue(t[1])
    ELSE 10 * Decimal(SubSeq(t, 1, Len(t) - 1)) + DigitValue(t[Len(t)])

\* The numbers of a reading r of text.
Numbers(text, r) ==
    LET t == IF text # <<>> /\ text[1] = "v" THEN Tail(text) ELSE text
    IN  [major |-> Decimal(SubSeq(t, 1, r.major - 1)),
         minor |-> Decimal(SubSeq(t, r.major + 1, r.minor - 1)),
         patch |-> Decimal(SubSeq(t, r.minor + 1, r.patch))]

InRange(v) == v.major <= MaxUint /\ v.minor <= MaxUint /\ v.patch <= MaxUint

Failed(result) == result.err # NoError /\ result.res = ZeroSemVer

(***************************************************************************)
(* C9, as stated: New succeeds exactly on the strings of the grammar, with *)
(* the numbers of the string as its result, and otherwise returns the zero *)
(* version with an error.                                                  *)
(***************************************************************************)
C9_SucceedsExactlyOnGrammar ==
    (call.fn = "New" /\ ret # nil) =>
        IF IsSemVerText(call.semVer)
        THEN Deref(ret).err = NoError
        ELSE Failed(Deref(ret))

(***************************************************************************)
(* C9, amended: New succeeds exactly on the strings of the grammar whose   *)
(* three numbers each fit the unsigned field, with those numbers as its    *)
(* result and the suffixes dropped; on every other string, a string of the *)
(* grammar with a number out of range included, it returns the zero        *)
(* version with an error.                                                  *)
(***************************************************************************)
C9_Examples ==
    LET v100 == [res |-> [major |-> 1, minor |-> 0, patch |-> 0], err |-> NoError]
        v101 == [res |-> [major |-> 1, minor |-> 0, patch |-> 1], err |-> NoError]
        got == Deref(ret)
    IN  /\ call.semVer = <<"v", "1", ".", "0", ".", "0">> => got = v100
        /\ call.semVer = <<"1", ".", "0", ".", "0">> => got = v100
        /\ call.semVer = <<"1", ".", "0", ".", "1", "-", "r", "c", ".", "1">>
              => got = v101
        /\ call.semVer = <<"1", ".", "0", ".", "1", "+", "b", "u", "i", "l", "d",
                           ".", "1">> => got = v101
        /\ call.semVer = <<"0", "1", ".", "0", ".", "0">> => Failed(got)

C9_SucceedsExactlyOnGrammarInRange ==
    (call.fn = "New" /\ ret # nil) =>
        /\ IF \E r \in Readings(call.semVer) : InRange(Numbers(call.semVer, r))
           THEN /\ Deref(ret).err = NoError
                /\ \A r \in Readings(call.semVer) :
                      Deref(ret).res = Numbers(call.semVer, r)
           ELSE Failed(Deref(ret))
        /\ C9_Examples

C9_Witness ==
    /\ call.fn = "New"
    /\ call.semVer = <<"v", "1", ".", "0", ".", "1", "-", "r", "c", ".", "1",
                       "+", "b", "u", "i", "l", "d", ".", "1">>
    /\ ret = Ptr([res |-> [major |-> 1, minor |-> 0, patch |-> 1],
                  err |-> NoError])

(***************************************************************************)
(* C10: the version getLatestTag returns is the greatest, by               *)
(* IsGreaterThan, of the listed tags that parse, in whatever order they    *)
(* are listed; a tag that does not parse is skipped and does not make the  *)
(* listing fail; with no tag that parses, or no tag, the version is 0.0.0, *)
(* a "patch" label then has v0.0.1 created, and the revision that returns  *)
(* the tagged commit returns none.                                         *)
(***************************************************************************)
ParsedVersions(listed) ==
    {New(ReplaceFirst(listed[i].Ref, RefsTags)).res :
        i \in {k \in DOMAIN listed :
                  New(ReplaceFirst(listed[k].Ref, RefsTags)).err = NoError}}

Greatest(versions) ==
    IF versions = {} THEN ZeroSemVer
    ELSE CHOOSE m \in versions : \A x \in versions : ~IsGreaterThan(x, m)

C10_LatestTag ==
    /\ (pc # "start" /\ api.list = "none") =>
          /\ g # nil
          /\ TheRepo.version = Greatest(ParsedVersions(Listed))
    /\ (pc # "start" /\ api.list = "notfound") =>
          g # nil /\ TheRepo.version = ZeroSemVer
    /\ (/\ IntoReleaseBranch
        /\ TheLabels = <<Label("patch")>>
        /\ ParsedVersions(Listed) = {}) =>
          /\ api.create \in {"created", "unanswered"}
          /\ api.create = "created" =>
                created = <<TagRef(<<"v", "0", ".", "0", ".", "1">>,
                                   Deref(argv).commitSha)>>
    /\ (call.fn = "getLatestTag" /\ ret # nil) =>
          /\ Deref(ret).err = NoError =>
                Deref(ret).version = Greatest(ParsedVersions(call.listing.refs))
          /\ ParsedVersions(call.listing.refs) = {} =>
                Deref(ret) = [version |-> ZeroSemVer, commit |-> "",
                              err |-> NoError]

C10_Witness ==
    /\ Performed
    /\ Len(Listed) = 3
    /\ Listed[1] = TagRef(Name(<<>>, 1, 3, 0), "c1")
    /\ Listed[2] = TagRef(<<"l", "a", "t", "e", "s", "t">>, FirstCommit)
    /\ Listed[3] = TagRef(Name(<<"v">>, 1, 2, 3), FirstCommit)
    /\ TheRepo.version = [major |-> 1, minor |-> 3, patch |-> 0]
    /\ ret # nil

(***************************************************************************)
(* C11, as stated: a closed and merged pull request whose base branch      *)
(* reference is missing (no base, or a base without a name) ends           *)
(* PerformAction with an error, the one for a base branch that cannot be   *)
(* determined, and without a call of createTag, whatever the release       *)
(* branch is, the empty name included.  The wording of the error is left   *)
(* open here: only that there is one.                                      *)
(***************************************************************************)
C11_BaseMissing == ClosedAndMerged /\ ~BasePresent

C11_BaseMissingIsRejected ==
    C11_BaseMissing => err # NoError /\ CreateTagNotCalled

\* A missing base read as "", the release branch "": the run creates a tag.
C11_BaseMissingIsTagged ==
    /\ C11_BaseMissing
    /\ ThePullRequest.Base = nil
    /\ TheRepo.releaseBranch = ""
    /\ TheLabels = <<Label("minor")>>
    /\ Listed = <<TagRef(Name(<<"v">>, 1, 2, 3), FirstCommit)>>
    /\ err = NoError
    /\ created = <<TagRef(Name(<<"v">>, 1, 3, 0), Deref(argv).commitSha)>>

(***************************************************************************)
(* C12, as stated: when the commit of the merge is the commit that the     *)
(* highest listed version is tagged on, a closed pull request merged into  *)
(* the release branch ends PerformAction without an error and without a    *)
(* call of createTag; so runs repeated for the same merge, each listing    *)
(* the tags anew, create at most one tag on its commit.  The commit of the *)
(* merge is the commit the workflow passes (commitSha).                    *)
(***************************************************************************)
TaggedCommit == LatestCommitOf(Listed, ZeroSemVer, "").commit

C12_AlreadyTagged ==
    IntoReleaseBranch /\ TaggedCommit = Deref(argv).commitSha

C12_AlreadyTaggedIsNoOp ==
    C12_AlreadyTagged => err = NoError /\ CreateTagNotCalled

\* The second run for the same merge tags its commit a second time.
C12_TaggedTwice ==
    /\ C12_AlreadyTagged
    /\ runs = 2
    /\ Deref(argv).commitSha = "c1"
    /\ TheLabels = <<Label("patch")>>
    /\ Listed = <<TagRef(Name(<<"v">>, 1, 2, 3), FirstCommit),
                  TagRef(Name(<<"v">>, 1, 3, 0), "c1")>>
    /\ created = <<TagRef(Name(<<"v">>, 1, 3, 1), "c1")>>

(***************************************************************************)
(* C13, as stated: when the version that the increment computes is not     *)
(* greater than 0.0.0 (a field that wrapped around), PerformAction ends    *)
(* with an error and without a call of createTag; and no run creates a tag *)
(* named v0.0.0.                                                           *)
(***************************************************************************)
Candidate == IncrementVersion(TheRepo.version, MostSignificant(TheLabels))

C13_DegenerateVersion ==
    /\ IntoReleaseBranch
    /\ MostSignificant(TheLabels) # IncrementTypeUnknown
    /\ ~LexGreater(Candidate, ZeroSemVer)

C13_ZeroVersionIsRejected ==
    /\ C13_DegenerateVersion => err # NoError /\ CreateTagNotCalled
    /\ \A i \in DOMAIN created :
          created[i].Ref # <<RefsTags>> \o Name(<<"v">>, 0, 0, 0)

\* The largest major version and a "major" label: the run creates v0.0.0.
C13_ZeroVersionIsTagged ==
    /\ C13_DegenerateVersion
    /\ TheRepo.version = [major |-> MaxUint, minor |-> MaxUint, patch |-> MaxUint]
    /\ err = NoError
    /\ created = <<TagRef(Name(<<"v">>, 0, 0, 0), Deref(argv).commitSha)>>

(***************************************************************************)
(* C14: IncrementVersion panics when its kind is Unknown, whatever the     *)
(* version; and no run of PerformAction, for any event and labels, calls   *)
(* IncrementVersion with Unknown: no run ends in that panic, and whenever  *)
(* a run went on to createTag (the call after IncrementVersion) the kind   *)
(* of its labels was major, minor or patch.  The first part is a fact of   *)
(* the function alone and is evaluated where a run starts.                 *)
(***************************************************************************)
C14_UnknownIsUnreachable ==
    /\ pc = "start" =>
          \A s \in SemVers :
              /\ IncrementVersion(s, IncrementTypeUnknown) = Panic
              /\ \A t \in IncrementTypes \ {IncrementTypeUnknown} :
                    IncrementVersion(s, t) # Panic
    /\ err # "panic: invalid increment type"
    /\ (Performed /\ api.create # "notcalled") =>
          MostSignificant(TheLabels) # IncrementTypeUnknown

\* A merged pull request into the release branch whose only label has no
\* name: the kind is Unknown, and the run returns before IncrementVersion.
C14_Witness ==
    /\ IntoReleaseBranch
    /\ TheLabels = <<NoNameLabel>>
    /\ TheRepo.version = [major |-> 1, minor |-> 2, patch |-> 3]
    /\ err = NoError
    /\ CreateTagNotCalled

(***************************************************************************)
(* C15, as stated: for every version that the fields can hold and every    *)
(* kind among major, minor and patch, the version that IncrementVersion    *)
(* returns IsGreaterThan the version it was called on, the largest value   *)
(* of the incremented field included.                                      *)
(***************************************************************************)
C15_IncrementIsGreater ==
    (/\ call.fn = "IncrementVersion"
     /\ call.incrementType # IncrementTypeUnknown
     /\ ret # nil) => IsGreaterThan(Deref(ret), call.s)

\* The largest minor version, incremented: the result is the lesser one.
C15_IncrementIsLess ==
    /\ call.fn = "IncrementVersion"
    /\ call.s = [major |-> 1, minor |-> MaxUint, patch |-> 0]
    /\ call.incrementType = IncrementTypeMinor
    /\ ret = Ptr([major |-> 1, minor |-> 0, patch |-> 0])
    /\ IsGreaterThan(call.s, Deref(ret))

===========================================================================
